---- MODULE Spec2Model ----
(***************************************************************************)
(* A model of the typed_query layer of todo-rust (src/src/lib.rs) and of   *)
(* the todo command-line program that uses it (src/src/main.rs).           *)
(*                                                                         *)
(* SQL text is modelled as real strings.  Every renderer is given twice:   *)
(* as the sequence of pieces the code pushes or formats (..._pieces) and   *)
(* as the string that results from concatenating them (to_sql_...).        *)
(***************************************************************************)
EXTENDS Integers, Sequences, FiniteSets, TLC

VARIABLES
    q,        \* the Query value the client holds, or NoValue
    ins,      \* the Insert value the client holds, or NoValue
    base,     \* history: the Table given to from / insert_into
    calls,    \* history: the where_ / order_by / values calls made, in order
    cbArg,    \* history: the column record handed to the last callback
    sent,     \* the statements the connection has received, in order
    answers,  \* history: the connection's answer to each of them
    result,   \* what the last query / execute call gave its caller
    pc,       \* "run", or "panicked" once a panic unwound the thread
    db,       \* the rows of the todo table in the database
    clock,    \* the database server's clock (now())
    nextId    \* the next value of the serial column's sequence

vars == <<q, ins, base, calls, cbArg, sent, answers, result, pc, db, clock, nextId>>

----------------------------------------------------------------------------
(* Bounds of the model. *)

MaxWrap == 3      \* where_ / order_by calls in one chain
MaxRows == 2      \* values calls in one chain
MaxCols == 2      \* Params in one row of freely mixed values and defaults
MaxSent == 2      \* statements sent over one connection
MaxTodos == 3     \* rows in the todo table
MaxClock == 6     \* ticks of the database clock

NoValue == [tag |-> "NoValue"]
NULL == [tag |-> "NULL"]

----------------------------------------------------------------------------
(* Text helpers: String concatenation and integer formatting. *)

RECURSIVE Concat(_)
\* The String obtained by pushing the pieces one after the other.
Concat(pieces) ==
    IF pieces = <<>> THEN ""
    ELSE Head(pieces) \o Concat(Tail(pieces))

Digits == <<"0", "1", "2", "3", "4", "5", "6", "7", "8", "9">>

RECURSIVE NatToString(_)
NatToString(n) ==
    IF n < 10 THEN Digits[n + 1]
    ELSE NatToString(n \div 10) \o Digits[(n % 10) + 1]

\* i32::to_string / usize::to_string: decimal, with a sign when negative.
IntToString(n) ==
    IF n < 0 THEN "-" \o NatToString(0 - n) ELSE NatToString(n)

----------------------------------------------------------------------------
(* Schema model and the field / predicate / order algebra. *)

Field(name) == [tag |-> "Field", name |-> name]

BoolValue(b) == [ty |-> "bool", b |-> b]
IntValue(n) == [ty |-> "i32", n |-> n]
StrValue(s) == [ty |-> "String", s |-> s]

Constant(value) == [tag |-> "Constant", value |-> value]

Table(name, columns) == [name |-> name, columns |-> columns]

\* The record of typed Field handles of the todo table, in declaration order.
TodoColumns ==
    << Field("id"), Field("name"), Field("created_time"),
       Field("completed"), Field("completed_time") >>

TODO_TABLE == Table("todo", TodoColumns)

\* A second Table value a consumer may declare.
PERSON_TABLE == Table("t", << Field("id"), Field("name") >>)

Tables == {TODO_TABLE, PERSON_TABLE}

\* T::to_string of the value a Constant holds.
ValueToString(value) ==
    CASE value.ty = "bool" -> (IF value.b THEN "true" ELSE "false")
      [] value.ty = "i32" -> IntToString(value.n)
      [] value.ty = "String" -> value.s

\* impl ToSql for Field<T>, &Field<T> and Constant<T> (dyn SomeField).
to_sql_SomeField(f) ==
    IF f.tag = "Field" THEN f.name ELSE ValueToString(f.value)

\* Field::eq
eq(self, other) == [field1 |-> self, field2 |-> other]

Predicate_pieces(predicate) ==
    << to_sql_SomeField(predicate.field1), " = ",
       to_sql_SomeField(predicate.field2) >>

to_sql_Predicate(predicate) == Concat(Predicate_pieces(predicate))

Ascending == "Ascending"
Descending == "Descending"

asc(field) == [by |-> field, direction |-> Ascending]

desc(field) == [by |-> field, direction |-> Descending]

\* to_sql_Direction with both arms giving the same keyword.
to_sql_Direction_AlwaysAsc(direction) ==
    IF direction = Ascending THEN "asc" ELSE "asc"

to_sql_Direction(direction) ==
    IF direction = Ascending THEN "asc" ELSE "desc"

Order_pieces(order) ==
    << to_sql_SomeField(order.by), " ", to_sql_Direction(order.direction) >>

to_sql_Order(order) == Concat(Order_pieces(order))

----------------------------------------------------------------------------
(* The query expression tree. *)

from(table) == [tag |-> "Table", table |-> table]

RECURSIVE Reverse(_)
Reverse(seq) == IF seq = << >> THEN << >> ELSE Append(Reverse(Tail(seq)), Head(seq))

RECURSIVE columns_Reordered(_)
\* columns with a wrapper handing out the record of its inner query in
\* another order.
columns_Reordered(query) ==
    IF query.tag = "Table" THEN query.table.columns
    ELSE Reverse(columns_Reordered(query.query))

RECURSIVE columns(_)
\* Query::columns
columns(query) ==
    IF query.tag = "Table" THEN query.table.columns
    ELSE columns(query.query)

\* A where_ callback: picks a column of the record it is handed and compares
\* it with an operand.
Condition(cb, cols) == eq(cols[cb.col], cb.other)

\* An order_by callback: picks a column of the record it is handed.
MakeOrder(cb, cols) ==
    IF cb.direction = Ascending THEN asc(cols[cb.col]) ELSE desc(cols[cb.col])

where_(self, cb) ==
    [tag |-> "Where", query |-> self,
     predicate |-> Condition(cb, columns(self))]

\* order_by with a second order replacing the first instead of nesting.
order_by_Replaces(self, cb) ==
    IF self.tag = "Order"
    THEN [tag |-> "Order", query |-> self.query,
          order |-> MakeOrder(cb, columns(self))]
    ELSE [tag |-> "Order", query |-> self,
          order |-> MakeOrder(cb, columns(self))]

order_by(self, cb) ==
    [tag |-> "Order", query |-> self,
     order |-> MakeOrder(cb, columns(self))]

to_sql_Table(table) == table.name

RECURSIVE Query_pieces_NoAlias(_)
\* Query_pieces with the derived table of a Where left without its alias.
Query_pieces_NoAlias(query) ==
    CASE query.tag = "Table" ->
            << "select * from ", to_sql_Table(query.table) >>
      [] query.tag = "Where" ->
            << "select * from (" >> \o Query_pieces_NoAlias(query.query)
                \o << ") where " >> \o Predicate_pieces(query.predicate)
      [] query.tag = "Order" ->
            << "select * from (" >> \o Query_pieces_NoAlias(query.query)
                \o << ") t order by " >> \o Order_pieces(query.order)

RECURSIVE Query_pieces(_)
\* The literal segments and arguments of the format! of each arm.
Query_pieces(query) ==
    CASE query.tag = "Table" ->
            << "select * from ", to_sql_Table(query.table) >>
      [] query.tag = "Where" ->
            << "select * from (" >> \o Query_pieces(query.query)
                \o << ") t where " >> \o Predicate_pieces(query.predicate)
      [] query.tag = "Order" ->
            << "select * from (" >> \o Query_pieces(query.query)
                \o << ") t order by " >> \o Order_pieces(query.order)

to_sql_Query(query) == Concat(Query_pieces(query))

RECURSIVE Depth(_)
Depth(query) == IF query.tag = "Table" THEN 0 ELSE 1 + Depth(query.query)

----------------------------------------------------------------------------
(* Insert parameters. *)

\* WithDefault<T>, String and Option<T> are the types with an IsDefault impl.
WithDefault_Value(v) == [tag |-> "WithDefault::Value", v |-> v]
WithDefault_Default == [tag |-> "WithDefault::Default"]
StringParam(s) == [tag |-> "String", s |-> s]
OptionSome(v) == [tag |-> "Option::Some", v |-> v]
OptionNone == [tag |-> "Option::None"]

\* is_default with an absent Option also taken for a default.
is_default_NoneIsDefault(v) ==
    CASE v.tag = "WithDefault::Value" -> FALSE
      [] v.tag = "WithDefault::Default" -> TRUE
      [] v.tag = "Option::None" -> TRUE
      [] OTHER -> FALSE

\* IsDefault::is_default: the trait's default method answers false, and only
\* WithDefault overrides it.
is_default(v) ==
    CASE v.tag = "WithDefault::Value" -> FALSE
      [] v.tag = "WithDefault::Default" -> TRUE
      [] OTHER -> FALSE

insert_into(table) == [table |-> table, values |-> <<>>]

\* values with the new row put before the earlier ones.
values_Prepends(self, vs) ==
    [table |-> self.table, values |-> << vs >> \o self.values]

\* Insert::values, given vs = v.to_sql_params()
values(self, vs) == [table |-> self.table, values |-> Append(self.values, vs)]

RECURSIVE InsertRow_loop_CountsDefaults(_, _, _, _)
\* InsertRow_loop with the counter also advanced past a default slot.
InsertRow_loop_CountsDefaults(vs, j, ix, out) ==
    IF j > Len(vs) THEN [out |-> out, ix |-> ix]
    ELSE LET sep == IF j - 1 > 0 THEN << ", " >> ELSE << >>
         IN  IF is_default(vs[j])
             THEN InsertRow_loop_CountsDefaults(vs, j + 1, ix + 1,
                                                out \o sep \o << "default" >>)
             ELSE InsertRow_loop_CountsDefaults(vs, j + 1, ix + 1,
                                 out \o sep \o << "$", IntToString(ix) >>)

RECURSIVE InsertRow_loop(_, _, _, _)
\* The inner loop of InsertParams::to_sql over the Params of one row, from
\* the j-th on; ix is the placeholder counter and out the pieces pushed.
InsertRow_loop(vs, j, ix, out) ==
    IF j > Len(vs) THEN [out |-> out, ix |-> ix]
    ELSE LET sep == IF j - 1 > 0 THEN << ", " >> ELSE << >>
         IN  IF is_default(vs[j])
             THEN InsertRow_loop(vs, j + 1, ix, out \o sep \o << "default" >>)
             ELSE InsertRow_loop(vs, j + 1, ix + 1,
                                 out \o sep \o << "$", IntToString(ix) >>)

RECURSIVE InsertParams_loop(_, _, _, _)
\* The outer loop of InsertParams::to_sql over the rows, from the i-th on.
InsertParams_loop(vss, i, ix, out) ==
    IF i > Len(vss) THEN out
    ELSE LET sep == IF i - 1 > 0 THEN << ", " >> ELSE << >>
             row == InsertRow_loop(vss[i], 1, ix, out \o sep \o << "(" >>)
         IN  InsertParams_loop(vss, i + 1, row.ix, row.out \o << ")" >>)

InsertParams_pieces(vss) == InsertParams_loop(vss, 1, 1, << >>)

to_sql_InsertParams(vss) == Concat(InsertParams_pieces(vss))

Insert_pieces(insert) ==
    << "insert into ", to_sql_Table(insert.table), " values " >>
        \o InsertParams_pieces(insert.values)

to_sql_Insert(insert) == Concat(Insert_pieces(insert))

RECURSIVE BoundRow_loop(_, _, _)
\* The inner loop of Insert::execute: pushes the non-default Params of a row.
BoundRow_loop(vs, j, ps) ==
    IF j > Len(vs) THEN ps
    ELSE IF ~ is_default(vs[j])
         THEN BoundRow_loop(vs, j + 1, Append(ps, vs[j]))
         ELSE BoundRow_loop(vs, j + 1, ps)

RECURSIVE BoundParams_loop(_, _, _)
\* The outer loop of Insert::execute.
BoundParams_loop(vss, i, ps) ==
    IF i > Len(vss) THEN ps
    ELSE BoundParams_loop(vss, i + 1, BoundRow_loop(vss[i], 1, ps))

\* The parameter list ps that Insert::execute hands to client.execute.
BoundParams(insert) == BoundParams_loop(insert.values, 1, << >>)

\* postgres::types::ToSql for a bound parameter: WithDefault::Default panics.
EncodePanics(v) == v.tag = "WithDefault::Default"

----------------------------------------------------------------------------
(* The connection, and decoding of the rows it returns. *)

Ts(t) == [tag |-> "SystemTime", t |-> t]

\* Physical rows of the todo table a connection may return.
PhysRowOpen == << 1, "buy milk", 1, FALSE, NULL >>
PhysRowDone == << 2, "walk dog", 2, TRUE, Ts(3) >>

\* What client.query may answer: an error, or rows.
BackendErrors == {"syntax error", "connection closed"}

Err(e) == [ok |-> FALSE, err |-> e]
Ok(v) == [ok |-> TRUE, val |-> v]

QueryAnswers ==
    {Err(e) : e \in BackendErrors}
        \cup {Ok(<< >>), Ok(<< PhysRowDone >>), Ok(<< PhysRowDone, PhysRowOpen >>)}

\* What client.execute may answer: an error, or the number of rows affected.
ExecuteAnswers(insert) ==
    {Err(e) : e \in BackendErrors} \cup {Ok(Len(insert.values))}

\* Result::unwrap on an Err value: the thread panics, the message holding
\* the Debug text of the error.
UnwrapPanic(e) ==
    [kind |-> "panic",
     msg |-> "called Result::unwrap() on an Err value", cause |-> e]

\* Row::get(idx) panics when the column is missing or its value cannot be
\* converted; a NULL cannot be converted to a type that is not an Option.
GetPanics(row, idx) == idx + 1 > Len(row) \/ row[idx + 1] = NULL

GetPanic(idx) ==
    [kind |-> "panic", msg |-> "error retrieving column", cause |-> idx]

\* impl FromRow for TodoRecord: only completed_time is nullable in the schema.
from_row_panics(row) ==
    \/ Len(row) < 5
    \/ GetPanics(row, 4)

from_row(row) ==
    [id |-> row[1], name |-> row[2], created_time |-> row[3],
     completed |-> row[4], completed_time |-> row[5].t]

RECURSIVE query_loop(_, _, _)
\* The for loop of Query::query: decodes the rows in order into vec, unless
\* from_row panics.
query_loop(rows, i, vec) ==
    IF i > Len(rows) THEN [kind |-> "returned", val |-> vec]
    ELSE IF from_row_panics(rows[i])
         THEN GetPanic(IF Len(rows[i]) < 5 THEN Len(rows[i]) ELSE 4)
         ELSE query_loop(rows, i + 1, Append(vec, from_row(rows[i])))

\* Query_query with the error of the connection replaced by no rows.
Query_query_SwallowsError(answer) ==
    IF ~ answer.ok THEN [kind |-> "returned", val |-> << >>]
    ELSE query_loop(answer.val, 1, << >>)

\* Query::query, given the connection's answer to the statement.
Query_query(answer) ==
    IF ~ answer.ok THEN UnwrapPanic(answer.err)
    ELSE query_loop(answer.val, 1, << >>)

\* Insert::execute, given the parameter list and the connection's answer.
Insert_execute(ps, answer) ==
    IF \E k \in 1..Len(ps) : EncodePanics(ps[k])
    THEN [kind |-> "panic",
          msg |-> "should never write a default value to sql", cause |-> "none"]
    ELSE IF ~ answer.ok THEN UnwrapPanic(answer.err)
    ELSE [kind |-> "returned", val |-> "()"]

Statement(sql, params) == [sql |-> sql, params |-> params]

----------------------------------------------------------------------------
(* A client of the library.  It starts one statement with from or         *)
(* insert_into, extends it with where_ / order_by or values, each of which *)
(* consumes the value and gives the extended one, and then runs it over    *)
(* its connection, possibly more than once (query and execute borrow the   *)
(* statement).  The guards on q, ins and sent state this shape of client;  *)
(* the guards on Depth, Len and MaxSent are the bounds of the model.  A    *)
(* panic ends the thread: nothing runs once pc is "panicked".              *)

NoResult == [kind |-> "none"]

Init ==
    /\ q = NoValue
    /\ ins = NoValue
    /\ base = NoValue
    /\ calls = << >>
    /\ cbArg = NoValue
    /\ sent = << >>
    /\ answers = << >>
    /\ result = NoResult
    /\ pc = "run"
    /\ db = << >>
    /\ clock = 1
    /\ nextId = 1

\* The columns the callbacks read and the operands where_ compares them with.
FilterCols(cols) == IF Len(cols) >= 4 THEN {4} ELSE {2}

SortCols(cols) == IF Len(cols) >= 4 THEN {3, 4} ELSE {1}

Operands(cols) ==
    {Constant(BoolValue(FALSE)), Constant(IntValue(12)), cols[1]}

WhereCallbacks(cols) ==
    {[col |-> c, other |-> o] : c \in FilterCols(cols), o \in Operands(cols)}

OrderCallbacks(cols) ==
    {[col |-> c, direction |-> d] :
        c \in SortCols(cols), d \in {Ascending, Descending}}

\* The rows a consumer's to_sql_params may give: every mix of WithDefault
\* values and defaults, plus rows with String and Option columns.  A Value
\* holds the number of its slot, counted over the whole Insert.
ParamKinds == {"Value", "Default"}

ParamOf(kind, n) ==
    CASE kind = "Value" -> WithDefault_Value(n)
      [] kind = "Default" -> WithDefault_Default
      [] kind = "String" -> StringParam("milk")
      [] kind = "Some" -> OptionSome(n)
      [] kind = "None" -> OptionNone

RowKinds ==
    UNION {[1..n -> ParamKinds] : n \in 0..MaxCols}
        \cup { << "Value", "Default", "Value" >>,
               << "Default", "Value", "Value" >>,
               << "String" >>, << "None", "Default" >>,
               << "Some", "String", "Value" >> }

RECURSIVE CountParams(_)
CountParams(vss) ==
    IF vss = << >> THEN 0 ELSE Len(Head(vss)) + CountParams(Tail(vss))

to_sql_params(kinds, offset) ==
    [j \in 1..Len(kinds) |-> ParamOf(kinds[j], offset + j)]

From(table) ==
    /\ pc = "run" /\ q = NoValue /\ ins = NoValue
    /\ q' = from(table)
    /\ base' = table
    /\ UNCHANGED <<ins, calls, cbArg, sent, answers, result, pc, db, clock, nextId>>

InsertInto(table) ==
    /\ pc = "run" /\ q = NoValue /\ ins = NoValue
    /\ ins' = insert_into(table)
    /\ base' = table
    /\ UNCHANGED <<q, calls, cbArg, sent, answers, result, pc, db, clock, nextId>>

WhereCall ==
    /\ pc = "run" /\ q # NoValue /\ sent = << >>
    /\ Depth(q) < MaxWrap
    /\ \E cb \in WhereCallbacks(columns(q)) :
          /\ q' = where_(q, cb)
          /\ calls' = Append(calls, [op |-> "where_", cb |-> cb])
    /\ cbArg' = columns(q)
    /\ UNCHANGED <<ins, base, sent, answers, result, pc, db, clock, nextId>>

OrderByCall ==
    /\ pc = "run" /\ q # NoValue /\ sent = << >>
    /\ Depth(q) < MaxWrap
    /\ \E cb \in OrderCallbacks(columns(q)) :
          /\ q' = order_by(q, cb)
          /\ calls' = Append(calls, [op |-> "order_by", cb |-> cb])
    /\ cbArg' = columns(q)
    /\ UNCHANGED <<ins, base, sent, answers, result, pc, db, clock, nextId>>

ValuesCall ==
    /\ pc = "run" /\ ins # NoValue /\ sent = << >>
    /\ Len(ins.values) < MaxRows
    /\ \E kinds \in RowKinds :
          LET vs == to_sql_params(kinds, CountParams(ins.values))
          IN  /\ ins' = values(ins, vs)
              /\ calls' = Append(calls, [op |-> "values", vs |-> vs])
    /\ UNCHANGED <<q, base, cbArg, sent, answers, result, pc, db, clock, nextId>>

QueryCall ==
    /\ pc = "run" /\ q # NoValue
    /\ Len(sent) < MaxSent
    /\ sent' = Append(sent, Statement(to_sql_Query(q), << >>))
    /\ \E answer \in QueryAnswers :
          /\ answers' = Append(answers, answer)
          /\ result' = Query_query(answer)
    /\ pc' = IF result'.kind = "panic" THEN "panicked" ELSE "run"
    /\ UNCHANGED <<q, ins, base, calls, cbArg, db, clock, nextId>>

ExecuteCall ==
    /\ pc = "run" /\ ins # NoValue
    /\ Len(sent) < MaxSent
    /\ LET ps == BoundParams(ins)
       IN  \E answer \in ExecuteAnswers(ins) :
              /\ result' = Insert_execute(ps, answer)
              /\ IF \E k \in 1..Len(ps) : EncodePanics(ps[k])
                 THEN UNCHANGED <<sent, answers>>
                 ELSE /\ sent' = Append(sent, Statement(to_sql_Insert(ins), ps))
                      /\ answers' = Append(answers, answer)
    /\ pc' = IF result'.kind = "panic" THEN "panicked" ELSE "run"
    /\ UNCHANGED <<q, ins, base, calls, cbArg, db, clock, nextId>>

Next ==
    \/ \E table \in Tables : From(table)
    \/ \E table \in Tables : InsertInto(table)
    \/ WhereCall
    \/ OrderByCall
    \/ ValuesCall
    \/ QueryCall
    \/ ExecuteCall

Spec == Init /\ [][Next]_vars

----------------------------------------------------------------------------
(* The todo program: every command is one run of main over a fresh        *)
(* connection to the database, which keeps the rows of the todo table.    *)

CreateTableSql == "create table if not exists todo (...)"

AddSql == "insert into todo (name) values ($1)"

CompleteSql ==
    "update todo set completed = true, completed_time = $1 where id = $2"

TodoNames == {"buy milk", "walk dog"}

\* The position of a column in the rows of the table create_tables declares.
ColumnIndex(name) ==
    CASE name = "id" -> 1
      [] name = "name" -> 2
      [] name = "created_time" -> 3
      [] name = "completed" -> 4
      [] name = "completed_time" -> 5

\* The row the database stores for AddSql: id from the serial sequence,
\* created_time default now(), completed default false, and completed_time,
\* which has no default, NULL.
InsertedRow(id, name, now) == << id, name, now, FALSE, NULL >>

\* The database's effect of CompleteSql on one row.
CompletedRow(row, now, id) ==
    IF row[1] = id THEN << row[1], row[2], row[3], TRUE, Ts(now) >> ELSE row

\* The value of a predicate operand in a row: a column, or the literal.
EvalOperand(f, row) ==
    IF f.tag = "Field" THEN row[ColumnIndex(f.name)]
    ELSE CASE f.value.ty = "bool" -> f.value.b
           [] f.value.ty = "i32" -> f.value.n
           [] f.value.ty = "String" -> f.value.s

OperandIsNull(f, row) ==
    f.tag = "Field" /\ f.name = "completed_time" /\ row[5] = NULL

RowMatches(predicate, row) ==
    /\ ~ OperandIsNull(predicate.field1, row)
    /\ ~ OperandIsNull(predicate.field2, row)
    /\ EvalOperand(predicate.field1, row) = EvalOperand(predicate.field2, row)

RECURSIVE InsertSorted(_, _, _, _)
\* rows is sorted by column idx in the given direction; row is put after the
\* rows that do not come later than it.
InsertSorted(rows, row, idx, direction) ==
    IF rows = << >> THEN << row >>
    ELSE LET first == Head(rows)
             before == IF direction = Ascending
                       THEN first[idx] <= row[idx]
                       ELSE first[idx] >= row[idx]
         IN  IF before
             THEN << first >> \o InsertSorted(Tail(rows), row, idx, direction)
             ELSE << row >> \o rows

RECURSIVE SortRows(_, _, _)
SortRows(rows, idx, direction) ==
    IF rows = << >> THEN << >>
    ELSE InsertSorted(SortRows(SubSeq(rows, 1, Len(rows) - 1), idx, direction),
                      rows[Len(rows)], idx, direction)

RECURSIVE EvalQuery(_, _)
\* The rows the database answers to the rendering of query.
EvalQuery(query, rows) ==
    CASE query.tag = "Table" -> rows
      [] query.tag = "Where" ->
            SelectSeq(EvalQuery(query.query, rows),
                      LAMBDA row : RowMatches(query.predicate, row))
      [] query.tag = "Order" ->
            SortRows(EvalQuery(query.query, rows),
                     ColumnIndex(query.order.by.name), query.order.direction)

\* The callbacks of the list command.
ListCondition == [col |-> 4, other |-> Constant(BoolValue(FALSE))]

ListOrder == [col |-> 3, direction |-> Ascending]

ListQuery == order_by(where_(from(TODO_TABLE), ListCondition), ListOrder)

InitTodo == Init

\* main with the arguments: add <name>
Add(name) ==
    /\ Len(db) < MaxTodos /\ clock < MaxClock
    /\ db' = Append(db, InsertedRow(nextId, name, clock))
    /\ nextId' = nextId + 1
    /\ clock' = clock + 1
    /\ sent' = << Statement(CreateTableSql, << >>), Statement(AddSql, << name >>) >>
    /\ result' = [kind |-> "returned", val |-> "()"]
    /\ pc' = "run"
    /\ UNCHANGED <<q, ins, base, calls, cbArg, answers>>

\* main with the argument: list
List ==
    /\ q' = ListQuery
    /\ base' = TODO_TABLE
    /\ cbArg' = columns(where_(from(TODO_TABLE), ListCondition))
    /\ sent' = << Statement(CreateTableSql, << >>),
                  Statement(to_sql_Query(ListQuery), << >>) >>
    /\ result' = Query_query(Ok(EvalQuery(ListQuery, db)))
    /\ pc' = IF result'.kind = "panic" THEN "panicked" ELSE "run"
    /\ UNCHANGED <<ins, calls, answers, db, clock, nextId>>

\* main with the arguments: complete <id>
Complete(id) ==
    /\ clock < MaxClock
    /\ db' = [i \in 1..Len(db) |-> CompletedRow(db[i], clock, id)]
    /\ clock' = clock + 1
    /\ sent' = << Statement(CreateTableSql, << >>),
                  Statement(CompleteSql, << Ts(clock), id >>) >>
    /\ result' = [kind |-> "returned", val |-> "()"]
    /\ pc' = "run"
    /\ UNCHANGED <<q, ins, base, calls, cbArg, answers, nextId>>

NextTodo ==
    \/ \E name \in TodoNames : Add(name)
    \/ List
    \/ \E id \in 1..MaxTodos : Complete(id)

SpecTodo == InitTodo /\ [][NextTodo]_vars

----------------------------------------------------------------------------
(* Properties of the Insert builder. *)

\* The "use the column's default" marker, as the specification names it.
IsDefaultMarker(v) == v = WithDefault_Default

\* The slots of an Insert, as <<row, column>> pairs.
Slots(vss) ==
    UNION {{<<i, j>> : j \in 1..Len(vss[i])} : i \in 1..Len(vss)}

\* Row-major, column-minor order of the slots.
SlotBefore(s, t) == s[1] < t[1] \/ (s[1] = t[1] /\ s[2] <= t[2])

\* The number k of a non-default slot: how many non-default slots come no
\* later than it.
SlotNumber(vss, s) ==
    Cardinality({t \in Slots(vss) :
                    SlotBefore(t, s) /\ ~ IsDefaultMarker(vss[t[1]][t[2]])})

RECURSIVE Join(_, _)
\* The texts, separated by sep.
Join(texts, sep) ==
    IF texts = << >> THEN ""
    ELSE IF Len(texts) = 1 THEN texts[1]
    ELSE texts[1] \o sep \o Join(Tail(texts), sep)

\* The number of every slot of an Insert.
SlotNumbers(vss) == [s \in Slots(vss) |-> SlotNumber(vss, s)]

SlotText(vss, numbers, s) ==
    IF IsDefaultMarker(vss[s[1]][s[2]]) THEN "default"
    ELSE "$" \o IntToString(numbers[s])

ExpectedValuesText(vss) ==
    LET numbers == SlotNumbers(vss)
    IN  Join([i \in 1..Len(vss) |->
                "(" \o Join([j \in 1..Len(vss[i]) |->
                                SlotText(vss, numbers, <<i, j>>)], ", ")
                    \o ")"], ", ")

NonDefaultSlots(vss) ==
    {s \in Slots(vss) : ~ IsDefaultMarker(vss[s[1]][s[2]])}

\* The k-th non-default Param, for every k.
ExpectedBound(vss) ==
    LET numbers == SlotNumbers(vss)
        slots == NonDefaultSlots(vss)
    IN  [k \in 1..Cardinality(slots) |->
            LET s == CHOOSE t \in slots : numbers[t] = k
            IN  vss[s[1]][s[2]]]

ExampleRows ==
    << << WithDefault_Value(1), WithDefault_Default, WithDefault_Value(3) >>,
       << WithDefault_Default, WithDefault_Value(5), WithDefault_Value(6) >> >>

\* C1: the placeholder numbering of the rendering agrees with the parameter
\* flattening of execute: the k-th non-default slot, rows in insertion order
\* and slots in column order, is rendered $k, and its Param is the k-th bound
\* parameter of every statement sent; the two example rows render as
\* ($1, default, $2), (default, $3, $4) with the bound values 1, 3, 5, 6.
C1_PlaceholdersMatchBinding ==
    ins # NoValue =>
        LET text == ExpectedValuesText(ins.values)
            bound == ExpectedBound(ins.values)
        IN  /\ to_sql_InsertParams(ins.values) = text
            /\ BoundParams(ins) = bound
            /\ \A n \in 1..Len(sent) :
                  /\ sent[n].sql
                        = "insert into " \o ins.table.name \o " values " \o text
                  /\ sent[n].params = bound
            /\ ins.values = ExampleRows =>
                  /\ to_sql_InsertParams(ins.values)
                        = "($1, default, $2), (default, $3, $4)"
                  /\ BoundParams(ins)
                        = << WithDefault_Value(1), WithDefault_Value(3),
                             WithDefault_Value(5), WithDefault_Value(6) >>

C1_Witness ==
    /\ ins # NoValue
    /\ ins.values = ExampleRows
    /\ Len(sent) >= 1
    /\ sent[1].sql = "insert into todo values ($1, default, $2), (default, $3, $4)"
    /\ result.kind = "returned"

RECURSIVE Flatten(_)
\* All Params of an Insert, rows in insertion order, slots in column order.
Flatten(vss) == IF vss = << >> THEN << >> ELSE Head(vss) \o Flatten(Tail(vss))

\* The pieces of a rendering that open a slot.
SlotMarks(pieces) == SelectSeq(pieces, LAMBDA p : p \in {"default", "$"})

DefaultPanic ==
    [kind |-> "panic",
     msg |-> "should never write a default value to sql", cause |-> "none"]

\* C2: execute binds exactly the non-default Params: as many as there are
\* Params other than WithDefault::Default, never a default (so the encoding
\* panic is unreachable), every String and Option Param among them, and a
\* slot is rendered default exactly when its Param is WithDefault::Default.
C2_OnlyNonDefaultsBound ==
    ins # NoValue =>
        LET flat == Flatten(ins.values)
            marks == SlotMarks(InsertParams_pieces(ins.values))
        IN  /\ result # DefaultPanic
            /\ Len(marks) = Len(flat)
            /\ \A k \in 1..Len(flat) :
                  (marks[k] = "default") <=> (flat[k].tag = "WithDefault::Default")
            /\ \A n \in 1..Len(sent) :
                  /\ Len(sent[n].params)
                        = Cardinality({k \in 1..Len(flat) :
                                          flat[k].tag # "WithDefault::Default"})
                  /\ \A k \in 1..Len(sent[n].params) :
                        sent[n].params[k].tag # "WithDefault::Default"
                  /\ \A k \in 1..Len(flat) :
                        flat[k].tag \in {"String", "Option::Some", "Option::None"}
                            => \E m \in 1..Len(sent[n].params) :
                                  sent[n].params[m] = flat[k]

C2_Witness ==
    /\ ins # NoValue
    /\ Len(ins.values) = 2
    /\ ins.values[1] = << OptionNone, WithDefault_Default >>
    /\ ins.values[2] = << StringParam("milk") >>
    /\ Len(sent) >= 1
    /\ sent[1].params = << OptionNone, StringParam("milk") >>

\* C6: insert_into starts with zero rows, and after n values calls the
\* Insert holds exactly the n rows given, in call order, each earlier row
\* unchanged, over the unchanged table.
C6_RowsAccumulate ==
    ins # NoValue =>
        /\ ins.table = base
        /\ Len(ins.values) = Len(calls)
        /\ \A n \in 1..Len(calls) : ins.values[n] = calls[n].vs

C6_Witness ==
    /\ ins # NoValue
    /\ Len(calls) = 2
    /\ ins.values = << calls[1].vs, calls[2].vs >>
    /\ calls[1].vs # calls[2].vs

\* The decimal numbers a placeholder may carry.
PlaceholderNumbers == {IntToString(k) : k \in 1..99}

RECURSIVE ValidRowPieces(_, _)
\* pieces, read from the given state on, are one or more parenthesised rows
\* separated by ", ", each with one or more slots separated by ", ", each
\* slot default or $k.
ValidRowPieces(pieces, state) ==
    IF pieces = << >> THEN state = "after_row"
    ELSE LET p == Head(pieces)
             rest == Tail(pieces)
         IN  CASE state = "row" -> p = "(" /\ ValidRowPieces(rest, "slot")
               [] state = "slot" ->
                     \/ p = "default" /\ ValidRowPieces(rest, "after_slot")
                     \/ p = "$" /\ ValidRowPieces(rest, "number")
               [] state = "number" ->
                     p \in PlaceholderNumbers /\ ValidRowPieces(rest, "after_slot")
               [] state = "after_slot" ->
                     \/ p = ", " /\ ValidRowPieces(rest, "slot")
                     \/ p = ")" /\ ValidRowPieces(rest, "after_row")
               [] state = "after_row" ->
                     p = ", " /\ ValidRowPieces(rest, "row")

ValidInsertPieces(pieces, table) ==
    /\ Len(pieces) > 3
    /\ SubSeq(pieces, 1, 3) = << "insert into ", table.name, " values " >>
    /\ ValidRowPieces(SubSeq(pieces, 4, Len(pieces)), "row")

\* C10: every Insert renders as
\* insert into <table-name> values (s, ..., s), ..., (s, ..., s)
\* with at least one row and at least one slot per row, and execute sends
\* nothing else.
C10_InsertWellFormed ==
    ins # NoValue =>
        /\ ValidInsertPieces(Insert_pieces(ins), ins.table)
        /\ \A n \in 1..Len(sent) : sent[n].sql = to_sql_Insert(ins)

----------------------------------------------------------------------------
(* Properties of the Query tree and its rendering. *)

\* C3: through any chain of where_ and order_by calls, columns() is the
\* column record of the table given to from, the same Fields in the same
\* order, and that record is what every callback was handed.
C3_ColumnsPreserved ==
    q # NoValue =>
        /\ columns(q) = base.columns
        /\ \A j \in 1..Len(base.columns) : columns(q)[j].name = base.columns[j].name
        /\ calls # << >> => cbArg = base.columns

C3_Witness ==
    /\ q # NoValue
    /\ Depth(q) = 3
    /\ q.tag = "Order" /\ q.query.tag = "Where" /\ q.query.query.tag = "Order"
    /\ columns(q) = TodoColumns
    /\ cbArg = TodoColumns

\* The text of the operands the callbacks use, as the specification gives it:
\* a Field is its name, a Constant the text of its value.
ExpectedOperandText(f) ==
    CASE f = Constant(BoolValue(FALSE)) -> "false"
      [] f = Constant(IntValue(12)) -> "12"
      [] OTHER -> f.name

DirectionWord(direction) ==
    CASE direction = Ascending -> "asc"
      [] direction = Descending -> "desc"

LastCall == calls'[Len(calls')]

WhereFixture == where_(from(TODO_TABLE), ListCondition)

\* C4: q.where_(...) renders as select * from (<q rendered>) t where
\* <field1> = <field2>, a Field as its name and a Constant as its value's
\* text; the todo table filtered on completed = false renders as
\* select * from (select * from todo) t where completed = false.
C4_WhereRendering ==
    /\ [][(q # NoValue /\ q' # q /\ q'.tag = "Where") =>
            to_sql_Query(q')
                = "select * from (" \o to_sql_Query(q) \o ") t where "
                    \o base.columns[LastCall.cb.col].name \o " = "
                    \o ExpectedOperandText(LastCall.cb.other)]_vars
    /\ [](q = WhereFixture =>
            to_sql_Query(q)
                = "select * from (select * from todo) t where completed = false")

C4_Witness ==
    /\ q = WhereFixture
    /\ to_sql_Query(q) = "select * from (select * from todo) t where completed = false"

OrderFixture(direction) ==
    order_by(from(TODO_TABLE), [col |-> 3, direction |-> direction])

\* C5: q.order_by(o) renders as select * from (<q rendered>) t order by
\* <field> <asc or desc>; from(T).order_by(asc(f)) is
\* select * from (select * from <T.name>) t order by <f.name> asc, and with
\* desc(f) the text ends in <f.name> desc.
C5_OrderRendering ==
    /\ [][(q # NoValue /\ q' # q /\ q'.tag = "Order") =>
            /\ to_sql_Query(q')
                  = "select * from (" \o to_sql_Query(q) \o ") t order by "
                      \o base.columns[LastCall.cb.col].name \o " "
                      \o DirectionWord(LastCall.cb.direction)
            /\ q.tag = "Table" =>
                  to_sql_Query(q')
                      = "select * from (select * from " \o base.name
                          \o ") t order by "
                          \o base.columns[LastCall.cb.col].name \o " "
                          \o DirectionWord(LastCall.cb.direction)]_vars
    /\ [](/\ q = OrderFixture(Ascending) =>
                to_sql_Query(q)
                    = "select * from (select * from todo) t order by created_time asc"
          /\ q = OrderFixture(Descending) =>
                to_sql_Query(q)
                    = "select * from (select * from todo) t order by created_time desc")

C5_Witness ==
    /\ q = OrderFixture(Descending)
    /\ to_sql_Query(q)
          = "select * from (select * from todo) t order by created_time desc"

RECURSIVE Repeat(_, _)
Repeat(piece, n) == IF n = 0 THEN << >> ELSE << piece >> \o Repeat(piece, n - 1)

\* The clause one call adds to the statement.
ClausePieces(call) ==
    IF call.op = "where_"
    THEN << ") t where ", base.columns[call.cb.col].name, " = ",
            ExpectedOperandText(call.cb.other) >>
    ELSE << ") t order by ", base.columns[call.cb.col].name, " ",
            DirectionWord(call.cb.direction) >>

RECURSIVE ClausesInCallOrder(_)
ClausesInCallOrder(cs) ==
    IF cs = << >> THEN << >>
    ELSE ClausePieces(Head(cs)) \o ClausesInCallOrder(Tail(cs))

ExpectedNesting ==
    Repeat("select * from (", Len(calls))
        \o << "select * from ", base.name >>
        \o ClausesInCallOrder(calls)

AliasPieces == {") t where ", ") t order by "}

OrderCalls == {n \in 1..Len(calls) : calls[n].op = "order_by"}

\* C9: n where_ / order_by calls render as n derived tables aliased t around
\* select * from <table-name>, the clauses innermost first in call order, and
\* the outermost order by clause carries the key of the last order_by call.
C9_NestingOrder ==
    q # NoValue =>
        LET pieces == Query_pieces(q)
            aliases == {k \in 1..Len(pieces) : pieces[k] \in AliasPieces}
            orders == {k \in 1..Len(pieces) : pieces[k] = ") t order by "}
        IN  /\ Depth(q) = Len(calls)
            /\ pieces = ExpectedNesting
            /\ to_sql_Query(q) = Concat(ExpectedNesting)
            /\ Cardinality(aliases) = Len(calls)
            /\ Cardinality(orders) = Cardinality(OrderCalls)
            /\ OrderCalls # {} =>
                  LET k == CHOOSE i \in orders : \A j \in orders : j <= i
                      n == CHOOSE i \in OrderCalls : \A j \in OrderCalls : j <= i
                  IN  /\ pieces[k + 1] = base.columns[calls[n].cb.col].name
                      /\ pieces[k + 3] = DirectionWord(calls[n].cb.direction)

C9_Witness ==
    /\ q # NoValue
    /\ Len(calls) = 3
    /\ calls[1].op = "order_by" /\ calls[1].cb.col = 3
    /\ calls[2].op = "where_"
    /\ calls[3].op = "order_by" /\ calls[3].cb.col = 4
    /\ calls[3].cb.direction = Descending
    /\ to_sql_Query(q)
          = "select * from (select * from (select * from (select * from todo)"
              \o " t order by created_time asc) t where completed = false)"
              \o " t order by completed desc"

----------------------------------------------------------------------------
(* Errors of the connection. *)

\* C7 as stated: a call the connection answers with an error gives its
\* caller that error, unchanged and unwrapped.
C7_ErrorReturnedAsIs ==
    \A n \in 1..Len(answers) : ~ answers[n].ok => result = answers[n]

\* C7, amended: a call the connection answers with an error does not return:
\* Result::unwrap panics, the panic carrying the backend error unmodified;
\* the error is not caught or retried, no rows are returned, and no further
\* statement is sent.
C7_ErrorPanics ==
    /\ \A n \in 1..Len(answers) :
          ~ answers[n].ok =>
              /\ n = Len(answers)
              /\ Len(sent) = Len(answers)
              /\ pc = "panicked"
              /\ result = UnwrapPanic(answers[n].err)
    /\ result.kind = "returned" => \A n \in 1..Len(answers) : answers[n].ok

C7_Witness ==
    /\ q # NoValue
    /\ Len(answers) = 2
    /\ answers[1].ok
    /\ answers[2] = Err("connection closed")
    /\ result = UnwrapPanic("connection closed")
    /\ pc = "panicked"

----------------------------------------------------------------------------
(* The todo program, end to end. *)

ListSent ==
    /\ Len(sent) = 2
    /\ sent[2].sql = to_sql_Query(ListQuery)

\* C8: after one add of "buy milk" on the table as created, list returns
\* that row; list returns the rows that are not completed, and only those,
\* by ascending creation time.
C8_AddThenList ==
    ListSent =>
        /\ result.kind = "returned"
        /\ \A k \in 1..Len(result.val) : ~ result.val[k].completed
        /\ \A k \in 1..Len(result.val) - 1 :
              result.val[k].created_time <= result.val[k + 1].created_time
        /\ {result.val[k].id : k \in 1..Len(result.val)}
              = {db[i][1] : i \in {j \in 1..Len(db) : ~ db[j][4]}}
        /\ db = << InsertedRow(1, "buy milk", 1) >> =>
              /\ Len(result.val) = 1
              /\ result.val[1].name = "buy milk"

====
